---- MODULE Spec2Model ----
(***************************************************************************)
(* velocyto: the batch dispatcher (commands/multi10x.py) and the           *)
(* single-sample pipeline (commands/_run.py) as state machines.            *)
(*                                                                         *)
(* Python strings are sequences of one-character strings, so that          *)
(* str.strip, str.split, glob and re.match are computed, not assumed.      *)
(***************************************************************************)
EXTENDS Integers, Sequences, FiniteSets, TLC

VARIABLES
    vcdirs,     \* multi10x: the "<sample dir>/velocyto" directories that exist, by sample id
    vcfiles,    \* multi10x: sample id -> names of the files inside its velocyto directory
    logs,       \* multi10x: <<logfolder, sample id>> -> content of nohup_<sample id>.out
    disp,       \* multi10x: dispatcher instance -> its arguments, locals and position
    folders,    \* _run: the output folders that exist
    outfiles,   \* _run: <<folder, file name>> -> content of each file written
    run         \* _run: pipeline instance -> its arguments, locals and position

vars == <<vcdirs, vcfiles, logs, disp, folders, outfiles, run>>

None == "None"

(***************************************************************************)
(* Strings                                                                 *)
(***************************************************************************)
\* The characters the model uses, in code-point order.
Chars == << "\n", " ", "-", ".", "0", "1", "2", "7", "9", ":", "A", "C", "G",
            "S", "T", "X", "_", "l", "m", "o", "p", "t", "x" >>

Ord(c) == CHOOSE i \in 1..Len(Chars) : Chars[i] = c

\* Python's str < str: lexicographic by code point, a proper prefix first.
RECURSIVE StrLess(_, _)
StrLess(a, b) ==
    IF b = <<>> THEN FALSE
    ELSE IF a = <<>> THEN TRUE
    ELSE IF Head(a) # Head(b) THEN Ord(Head(a)) < Ord(Head(b))
    ELSE StrLess(Tail(a), Tail(b))

\* list.sort() of a collection of distinct strings.
RECURSIVE SortStrings(_)
SortStrings(S) ==
    IF S = {} THEN <<>>
    ELSE LET m == CHOOSE x \in S : \A y \in S \ {x} : StrLess(x, y)
         IN  <<m>> \o SortStrings(S \ {m})

StartsWith(s, p) == Len(s) >= Len(p) /\ SubSeq(s, 1, Len(p)) = p

Whitespace == {"\n", " "}

\* str.strip(): leading and trailing whitespace removed.
RECURSIVE LStrip(_)
LStrip(s) == IF s # <<>> /\ Head(s) \in Whitespace THEN LStrip(Tail(s)) ELSE s
RECURSIVE RStrip(_)
RStrip(s) == IF s # <<>> /\ s[Len(s)] \in Whitespace
             THEN RStrip(SubSeq(s, 1, Len(s) - 1)) ELSE s
Strip(s) == RStrip(LStrip(s))

\* str.split(sep)[0]: the part before the first occurrence of sep.
RECURSIVE SplitFirst(_, _)
SplitFirst(s, sep) ==
    IF s = <<>> \/ Head(s) = sep THEN <<>>
    ELSE <<Head(s)>> \o SplitFirst(Tail(s), sep)

(***************************************************************************)
(* multi10x: the filesystem it works on                                    *)
(***************************************************************************)
ChromiumRoot == "/data/proj/chromium"
OtherRoot    == "/data/proj/other"
ParentFolders == {ChromiumRoot, OtherRoot}

s10X01 == << "1", "0", "X", "0", "1", "_", "1" >>
s10X02 == << "1", "0", "X", "_", "0", "2", "_", "2" >>
sTmp   == << "t", "m", "p" >>
s10X77 == << "1", "0", "X", "7", "7", "_", "1" >>

\* The children of each parent folder (they are directories and do not change).
Children(root) == IF root = ChromiumRoot THEN {s10X02, s10X01, sTmp} ELSE {s10X77}

\* Names a velocyto directory may hold before the dispatchers start.
fLoom    == << "1", "0", "X", "0", "1", "_", "1", ".", "l", "o", "o", "m" >>
fLoomNl  == << "1", "0", "X", "_", "0", "2", "_", "0", "2", "x", "l", "o", "o", "m", "\n" >>
fLoom9   == << "1", "0", "X", "0", "1", "_", "9", ".", "l", "o", "o", "m" >>
fTab     == << "1", "0", "X", "0", "1", "_", "1", ".", "t", "m", "p" >>
FileNames == {fLoom, fLoomNl, fLoom9, fTab}

LogFolders == {"/logs", "/logs2"}

\* glob.glob("/data/proj/chromium/10X*"): the pattern is a literal of the code.
Glob10X == {d \in Children(ChromiumRoot) : StartsWith(d, << "1", "0", "X" >>)}

Digits == {"0", "1", "2", "3", "4", "5", "6", "7", "8", "9"}
OneToEight == Digits \ {"0", "9"}

AllIn(s, from, to, class) == \A p \in from..to : s[p] \in class

\* re.match("^10X[_]*?[0-9]{2,3}_[0]*?[1-8]{1,}.loom$", i): "10X", k underscores,
\* two or three digits, "_", j zeros, one or more of 1-8, any character but a
\* newline, "loom", and the end of the string or a newline that ends it.
LoomMatchBody(s) ==
    /\ Len(s) >= 12
    /\ SubSeq(s, 1, 3) = << "1", "0", "X" >>
    /\ SubSeq(s, Len(s) - 3, Len(s)) = << "l", "o", "o", "m" >>
    /\ s[Len(s) - 4] # "\n"
    /\ \E k \in 0..(Len(s) - 12), d \in 2..3 :
          \E j \in 0..(Len(s) - 10 - k - d) :
             LET m == Len(s) - 9 - k - d - j
             IN  /\ m >= 1
                 /\ AllIn(s, 4, 3 + k, {"_"})
                 /\ AllIn(s, 4 + k, 3 + k + d, Digits)
                 /\ s[4 + k + d] = "_"
                 /\ AllIn(s, 5 + k + d, 4 + k + d + j, {"0"})
                 /\ AllIn(s, 5 + k + d + j, 4 + k + d + j + m, OneToEight)

LoomMatch(s) ==
    \/ LoomMatchBody(s)
    \/ /\ s # <<>>
       /\ s[Len(s)] = "\n"
       /\ LoomMatchBody(SubSeq(s, 1, Len(s) - 1))

(***************************************************************************)
(* multi10x: one dispatcher instance per command-line invocation           *)
(***************************************************************************)
Dispatchers == {1, 2}

MaxNumber == 2
Numbers == -1..MaxNumber

OldLog == <<"old output">>
EmptyLog == <<>>

\* dir_i.split("/")[-1] of dir_i = "/data/proj/chromium/<name>" is <name>; a
\* directory of the glob is identified by that name.
SampleId(dir_i) == dir_i

NameLogFile(logfolder, sample_id) == <<logfolder, sample_id>>

\* The worker's command line: folder is f"/data/proj/chromium/{sample_id}".
WorkerFolder(sample_id) == <<ChromiumRoot, sample_id>>

DispLocals0 ==
    [pc |-> "start", all_10X_dirs |-> <<>>, k |-> 0, n |-> 0,
     list_loom |-> {}, launched |-> <<>>, claimed |-> {}, after |-> {}]

DispArgs == [parentfolder : ParentFolders, number : Numbers,
             logfolder : LogFolders \cup {None}]

Merge(f, g) == [x \in DOMAIN f \cup DOMAIN g |-> IF x \in DOMAIN f THEN f[x] ELSE g[x]]

\* What each velocyto directory may hold before the dispatchers start.
InitialContents(sample_id) ==
    IF sample_id = s10X01 THEN {{}, {fLoom}, {fLoom9}} ELSE {{}, {fLoomNl}, {fTab}}

NoFiles == <<>>
NoRuns == <<>>

InitDispatch ==
    /\ vcdirs \in SUBSET Glob10X
    /\ vcfiles \in [Glob10X -> SUBSET FileNames]
    /\ \A s \in Glob10X : vcfiles[s] \in InitialContents(s)
    /\ \A s \in Glob10X \ vcdirs : vcfiles[s] = {}
    /\ \E L \in SUBSET ({"/logs"} \X Glob10X) : logs = [f \in L |-> OldLog]
    /\ \E a \in [Dispatchers -> DispArgs] :
          disp = [d \in Dispatchers |-> Merge(a[d], DispLocals0)]
    /\ folders = {}
    /\ outfiles = NoFiles
    /\ run = NoRuns

Finished(d) == disp[d].pc \in {"done", "exited", "crashed"}

Cur(d) == disp[d].all_10X_dirs[disp[d].k]

NextCandidate(d) == [disp EXCEPT ![d].pc = "loop", ![d].k = @ + 1]

\* Lines 64-68: the glob, n = 0, the sort.
DStart(d) ==
    /\ disp[d].pc = "start"
    /\ disp' = [disp EXCEPT ![d].pc = "loop",
                            ![d].all_10X_dirs = SortStrings(Glob10X),
                            ![d].k = 1,
                            ![d].n = 0,
                            ![d].after = {e \in Dispatchers \ {d} : Finished(e)}]
    /\ UNCHANGED <<vcdirs, vcfiles, logs, folders, outfiles, run>>

\* Line 69 with no directory left: the function returns.
DReturn(d) ==
    /\ disp[d].pc = "loop"
    /\ disp[d].k > Len(disp[d].all_10X_dirs)
    /\ disp' = [disp EXCEPT ![d].pc = "done"]
    /\ UNCHANGED <<vcdirs, vcfiles, logs, folders, outfiles, run>>

\* Lines 70-73: os.path.join(None, ...) raises TypeError; else os.path.exists(vc_dir).
DExists(d) ==
    /\ disp[d].pc = "loop"
    /\ disp[d].k <= Len(disp[d].all_10X_dirs)
    /\ disp' = IF disp[d].logfolder = None
               THEN [disp EXCEPT ![d].pc = "crashed"]
               ELSE IF SampleId(Cur(d)) \in vcdirs
                    THEN [disp EXCEPT ![d].pc = "listdir"]
                    ELSE [disp EXCEPT ![d].pc = "mkdir"]
    /\ UNCHANGED <<vcdirs, vcfiles, logs, folders, outfiles, run>>

\* Lines 74-78: os.mkdir(vc_dir); FileExistsError is caught and the loop continues.
DMkdir(d) ==
    /\ disp[d].pc = "mkdir"
    /\ IF SampleId(Cur(d)) \in vcdirs
       THEN /\ disp' = NextCandidate(d)
            /\ UNCHANGED vcdirs
       ELSE /\ vcdirs' = vcdirs \cup {SampleId(Cur(d))}
            /\ disp' = [disp EXCEPT ![d].pc = "listdir",
                                    ![d].claimed = @ \cup {SampleId(Cur(d))}]
    /\ UNCHANGED <<vcfiles, logs, folders, outfiles, run>>

\* Line 79, and line 80 when list_loom is not empty (the else branch, line 98).
DListdir(d) ==
    /\ disp[d].pc = "listdir"
    /\ LET list_loom == {i \in vcfiles[SampleId(Cur(d))] : LoomMatch(i)}
       IN  disp' = IF list_loom = {}
                   THEN [disp EXCEPT ![d].pc = "checklog", ![d].list_loom = list_loom]
                   ELSE [NextCandidate(d) EXCEPT ![d].list_loom = list_loom]
    /\ UNCHANGED <<vcdirs, vcfiles, logs, folders, outfiles, run>>

PathExistsNever(name_log_file) == FALSE

\* os.path.exists(name_log_file)
PathExists(name_log_file) == name_log_file \in DOMAIN logs

\* Line 80: os.path.exists(name_log_file).
DCheckLog(d) ==
    /\ disp[d].pc = "checklog"
    /\ disp' = IF PathExists(NameLogFile(disp[d].logfolder, SampleId(Cur(d))))
               THEN NextCandidate(d)
               ELSE [disp EXCEPT ![d].pc = "open"]
    /\ UNCHANGED <<vcdirs, vcfiles, logs, folders, outfiles, run>>

\* Lines 81-90: open(name_log_file, "w") creates the file or truncates it.
DOpen(d) ==
    /\ disp[d].pc = "open"
    /\ logs' = Merge([f \in {NameLogFile(disp[d].logfolder, SampleId(Cur(d)))} |-> EmptyLog],
                     logs)
    /\ disp' = [disp EXCEPT ![d].pc = "popen"]
    /\ UNCHANGED <<vcdirs, vcfiles, folders, outfiles, run>>

\* Lines 91-96: the worker is spawned, n += 1, sys.exit() at the cap, else sleep.
DPopen(d) ==
    /\ disp[d].pc = "popen"
    /\ LET w == [folder |-> WorkerFolder(SampleId(Cur(d))),
                 log |-> NameLogFile(disp[d].logfolder, SampleId(Cur(d)))]
           n == disp[d].n + 1
       IN  disp' = [disp EXCEPT ![d].launched = Append(@, w),
                                ![d].n = n,
                                ![d].k = IF n >= disp[d].number THEN @ ELSE @ + 1,
                                ![d].pc = IF n >= disp[d].number THEN "exited" ELSE "loop"]
    /\ UNCHANGED <<vcdirs, vcfiles, logs, folders, outfiles, run>>

NextDispatch ==
    \E d \in Dispatchers :
        \/ DStart(d)
        \/ DReturn(d)
        \/ DExists(d)
        \/ DMkdir(d)
        \/ DListdir(d)
        \/ DCheckLog(d)
        \/ DOpen(d)
        \/ DPopen(d)

SpecDispatch == InitDispatch /\ [][NextDispatch]_vars

(***************************************************************************)
(* _run: the single-sample pipeline                                        *)
(***************************************************************************)
EmptyDict == [x \in {} |-> 0]

\* An optional argument: Python's None, or a value.
NoneOf(dummy) == [none |-> TRUE, val |-> dummy]
Some(x) == [none |-> FALSE, val |-> x]

MaxLines == 2
MaxGenes == 1
IdSize == 5

\* The lines open(bcfile).readlines() may return.
RawLines == { << "A", "C", "-", "1", "\n" >>,
              << "A", "C", "\n" >>,
              << " ", "G", "T", "-", "2", "\n" >>,
              << "\n" >> }

RECURSIVE SeqsUpTo(_, _)
SeqsUpTo(S, n) ==
    IF n = 0 THEN {<<>>}
    ELSE LET shorter == SeqsUpTo(S, n - 1)
         IN  shorter \cup {Append(q, x) : q \in {t \in shorter : Len(t) = n - 1}, x \in S}

BcFiles == SeqsUpTo(RawLines, MaxLines)

sidS == << "S" >>
sidT == << "T" >>

\* Rows of the sample sheet: the SampleID column and the whole row as a dict.
rowS1 == [SampleID |-> sidS, dict |-> [SampleID |-> sidS, Age |-> "P7", Sex |-> "F"]]
rowS2 == [SampleID |-> sidS, dict |-> [SampleID |-> sidS, Age |-> "P9", Sex |-> "M"]]
rowT  == [SampleID |-> sidT, dict |-> [SampleID |-> sidT, Age |-> "P0", Sex |-> "F"]]
MetadataTables == { <<rowT>>, <<rowT, rowS1>>, <<rowS1, rowS2>>, <<rowS2, rowT, rowS1, rowS1>> }

\* The caller's column attributes: none, a column of one or of two values, and a
\* column under the key the pipeline uses for its own cell list.
cidA == << "S", ":", "A" >>
cidC == << "S", ":", "C" >>
AdditionalCAs == { EmptyDict, [Clusters |-> <<3>>], [Clusters |-> <<3, 4>>],
                   [CellID |-> <<cidA, cidC>>] }

BamDir == "/data/s1/outs"
BamBase == << "p", "o", "s", ".", "b", "a", "m" >>
OutArg == "/out"

\* os.path.join(os.path.split(bamfile)[0], "velocyto")
DefaultOutputFolder(bamdir) == bamdir \o "/velocyto"

\* The alphabet of id_generator is ascii_uppercase + digits; two of its characters.
IdChars == {"A", "7"}

\* id_generator(size): size characters drawn at random.
IdGenerator(size) == [1..size -> IdChars]

RunArgs ==
    [bamdir : {BamDir}, bambase : {BamBase},
     bcfile : {NoneOf(<<>>)} \cup {Some(f) : f \in BcFiles},
     outputfolder : {None, OutArg},
     sampleid : {NoneOf(<<>>), Some(sidS)},
     metadatatable : {NoneOf(<<>>)} \cup {Some(t) : t \in MetadataTables},
     debug : BOOLEAN,
     additional_ca : AdditionalCAs]

\* The locals of _run; `bound` holds the names of those assigned so far, nmatch is
\* len(sample) after the lookup (-1 before it), exitcode the argument of sys.exit.
RunLocals0 ==
    [pc |-> "sampleid", error |-> None, exitcode |-> 0, bound |-> {},
     sid |-> <<>>, outfolder |-> None,
     valid_bcs_list |-> <<>>, valid_cellid_list |-> <<>>, valid_bcs2idx |-> EmptyDict,
     sample |-> EmptyDict, nmatch |-> -1,
     exincounter |-> [filter_mode |-> FALSE, valid_bcs2idx |-> EmptyDict,
                      genes |-> <<>>, counted |-> FALSE],
     ca |-> EmptyDict, errors |-> {}]

Crash(r, e) == [run EXCEPT ![r].pc = "crashed", ![r].error = e]

\* Lines 39-42.
RSampleId(r) ==
    /\ r \in DOMAIN run
    /\ run[r].pc = "sampleid"
    /\ IF run[r].sampleid.none
       THEN IF ~run[r].metadatatable.none
            THEN run' = Crash(r, "AssertionError")
            ELSE \E suffix \in IdGenerator(IdSize) :
                    run' = [run EXCEPT ![r].pc = "outfolder",
                                       ![r].sid = SplitFirst(run[r].bambase, ".")
                                                  \o <<"_">> \o suffix]
       ELSE run' = [run EXCEPT ![r].pc = "outfolder", ![r].sid = run[r].sampleid.val]
    /\ UNCHANGED <<vcdirs, vcfiles, logs, disp, folders, outfiles>>

\* Lines 45-48: the folder's name, and os.path.exists(outputfolder).
ROutFolder(r) ==
    /\ r \in DOMAIN run
    /\ run[r].pc = "outfolder"
    /\ LET outputfolder == IF run[r].outputfolder = None
                           THEN DefaultOutputFolder(run[r].bamdir)
                           ELSE run[r].outputfolder
       IN  run' = [run EXCEPT ![r].outfolder = outputfolder,
                              ![r].pc = IF outputfolder \in folders
                                        THEN "barcodes" ELSE "mkdir"]
    /\ UNCHANGED <<vcdirs, vcfiles, logs, disp, folders, outfiles>>

\* Line 49: os.mkdir(outputfolder) raises FileExistsError when it exists.
RMkdir(r) ==
    /\ r \in DOMAIN run
    /\ run[r].pc = "mkdir"
    /\ IF run[r].outfolder \in folders
       THEN /\ run' = Crash(r, "FileExistsError")
            /\ UNCHANGED folders
       ELSE /\ folders' = folders \cup {run[r].outfolder}
            /\ run' = [run EXCEPT ![r].pc = "barcodes"]
    /\ UNCHANGED <<vcdirs, vcfiles, logs, disp, outfiles>>

\* Line 55: [l.strip() for l in open(bcfile).readlines()]
ValidBcsList(lines) == [n \in 1..Len(lines) |-> Strip(lines[n])]

\* The entries of a list without the repeats, in the order of first occurrence.
RECURSIVE DistinctInOrder(_)
DistinctInOrder(s) ==
    IF s = <<>> THEN <<>>
    ELSE LET t == DistinctInOrder(SubSeq(s, 1, Len(s) - 1))
         IN  IF \E i \in 1..Len(t) : t[i] = s[Len(s)] THEN t ELSE Append(t, s[Len(s)])

\* The cell list built from the distinct barcodes instead of from every line.
ValidCellidListDistinct(sampleid, valid_bcs_list) ==
    LET keys == DistinctInOrder(valid_bcs_list)
    IN  [n \in 1..Len(keys) |-> sampleid \o <<":">> \o keys[n]]

\* Line 56: [f"{sampleid}:{v_bc}" for v_bc in valid_bcs_list]
ValidCellidList(sampleid, valid_bcs_list) ==
    [n \in 1..Len(valid_bcs_list) |-> sampleid \o <<":">> \o valid_bcs_list[n]]

\* Line 57: dict((bc.split('-')[0], n) for n, bc in enumerate(valid_bcs_list)); of
\* two lines with the same bare barcode the later one gives the index.
ValidBcs2idx(valid_bcs_list) ==
    [bc \in {SplitFirst(valid_bcs_list[n], "-") : n \in 1..Len(valid_bcs_list)} |->
        (CHOOSE n \in 1..Len(valid_bcs_list) :
            /\ SplitFirst(valid_bcs_list[n], "-") = bc
            /\ \A m \in 1..Len(valid_bcs_list) :
                  SplitFirst(valid_bcs_list[m], "-") = bc => m <= n) - 1]

\* Lines 51-59; the debug message of line 59 reads valid_bcs_list[0].
RBarcodes(r) ==
    /\ r \in DOMAIN run
    /\ run[r].pc = "barcodes"
    /\ IF run[r].bcfile.none
       THEN run' = [run EXCEPT ![r].pc = "metadata"]
       ELSE LET valid_bcs_list == ValidBcsList(run[r].bcfile.val)
                locals == [run EXCEPT
                             ![r].bound = @ \cup {"valid_bcs_list", "valid_cellid_list",
                                                  "valid_bcs2idx"},
                             ![r].valid_bcs_list = valid_bcs_list,
                             ![r].valid_cellid_list = ValidCellidList(run[r].sid, valid_bcs_list),
                             ![r].valid_bcs2idx = ValidBcs2idx(valid_bcs_list)]
            IN  run' = IF valid_bcs_list = <<>>
                       THEN [locals EXCEPT ![r].pc = "crashed", ![r].error = "IndexError"]
                       ELSE [locals EXCEPT ![r].pc = "metadata"]
    /\ UNCHANGED <<vcdirs, vcfiles, logs, disp, folders, outfiles>>

\* sample_metadata.where("SampleID", sampleid): the rows of that sample, in order.
RECURSIVE Where(_, _)
Where(table, sampleid) ==
    IF table = <<>> THEN <<>>
    ELSE (IF Head(table).SampleID = sampleid THEN <<Head(table)>> ELSE <<>>)
         \o Where(Tail(table), sampleid)

SampleOfRowsFirst(rows) ==
    IF Len(rows) = 0
    THEN [exit |-> FALSE, sample |-> EmptyDict, errors |-> {"not found in sample sheet"}]
    ELSE [exit |-> FALSE, sample |-> rows[1].dict, errors |-> {}]

\* Lines 66-75: what the number of rows decides.
SampleOfRows(rows) ==
    IF Len(rows) = 0
    THEN [exit |-> FALSE, sample |-> EmptyDict, errors |-> {"not found in sample sheet"}]
    ELSE IF Len(rows) > 1
    THEN [exit |-> TRUE, sample |-> EmptyDict, errors |-> {"multiple lines in sample sheet"}]
    ELSE [exit |-> FALSE, sample |-> rows[1].dict, errors |-> {}]

\* Lines 62-81.
RMetadata(r) ==
    /\ r \in DOMAIN run
    /\ run[r].pc = "metadata"
    /\ IF ~run[r].metadatatable.none
       THEN LET rows == Where(run[r].metadatatable.val, run[r].sid)
                got == SampleOfRows(rows)
            IN  run' = [run EXCEPT ![r].sample = got.sample,
                                   ![r].bound = @ \cup {"sample"},
                                   ![r].nmatch = Len(rows),
                                   ![r].errors = @ \cup got.errors,
                                   ![r].exitcode = IF got.exit THEN 1 ELSE @,
                                   ![r].pc = IF got.exit THEN "exited" ELSE "engine"]
       ELSE run' = [run EXCEPT ![r].sample = EmptyDict,
                               ![r].bound = @ \cup {"sample"},
                               ![r].pc = "engine"]
    /\ UNCHANGED <<vcdirs, vcfiles, logs, disp, folders, outfiles>>

\* vcy.ExInCounter(valid_bcs2idx): filter_mode tells that barcodes were supplied.
ExInCounter(valid_bcs2idx) ==
    [filter_mode |-> TRUE, valid_bcs2idx |-> valid_bcs2idx, genes |-> <<>>, counted |-> FALSE]

\* Line 84: valid_bcs2idx is a local that only the bcfile branch assigns.
REngine(r) ==
    /\ r \in DOMAIN run
    /\ run[r].pc = "engine"
    /\ run' = IF "valid_bcs2idx" \notin run[r].bound
              THEN Crash(r, "UnboundLocalError")
              ELSE [run EXCEPT ![r].exincounter = ExInCounter(run[r].valid_bcs2idx),
                               ![r].pc = "count"]
    /\ UNCHANGED <<vcdirs, vcfiles, logs, disp, folders, outfiles>>

ConstVec(v, n) == [c \in 1..n |-> v]

\* What the counting engine may count for a gene: <<spliced, unspliced, ambiguous>>.
Fills == { <<0, 0, 0>>, <<1, 0, 2>> }

\* A gene after exincounter.count: one count per cell of the engine's barcode table.
Gene(i, fill, ncells) ==
    [geneid |-> i, genename |-> i, chrom |-> "chr1", strand |-> "+",
     start |-> 100 * i, end |-> 100 * i + 50,
     spliced_mol_counts |-> ConstVec(fill[1], ncells),
     unspliced_mol_counts |-> ConstVec(fill[2], ncells),
     ambiguous_mol_counts |-> ConstVec(fill[3], ncells)]

SamFiles == {"sure_introns.sam", "sure_exon.sam", "maybe_exon.sam",
             "not_exon_not_intron.sam", "chimeras.sam"}

WriteFiles(folder, sid, names, content) ==
    Merge([f \in {<<folder, sid, n>> : n \in names} |-> content], outfiles)

\* Lines 87-114: read_genes, mark_up_introns, count; in debug mode the .sam files.
RCount(r) ==
    /\ r \in DOMAIN run
    /\ run[r].pc = "count"
    /\ \E fills \in [1..MaxGenes -> Fills] :
          LET ncells == Cardinality(DOMAIN run[r].exincounter.valid_bcs2idx)
          IN  run' = [run EXCEPT
                        ![r].exincounter.genes = [i \in 1..MaxGenes |-> Gene(i, fills[i], ncells)],
                        ![r].exincounter.counted = TRUE,
                        ![r].pc = "reconcile"]
    /\ outfiles' = IF run[r].debug
                   THEN WriteFiles(run[r].outfolder, run[r].sid, SamFiles, "sam")
                   ELSE outfiles
    /\ UNCHANGED <<vcdirs, vcfiles, logs, disp, folders>>

\* Line 118: the keys of the engine's table in the order of their indexes.
RECURSIVE SortedByIndex(_)
SortedByIndex(bcs2idx) ==
    IF DOMAIN bcs2idx = {} THEN <<>>
    ELSE LET k == CHOOSE x \in DOMAIN bcs2idx :
                     \A y \in DOMAIN bcs2idx : bcs2idx[x] <= bcs2idx[y]
         IN  <<k>> \o SortedByIndex([y \in DOMAIN bcs2idx \ {k} |-> bcs2idx[y]])

\* Line 119: [f"{sampleid}:{v_bc}-1" for v_bc in valid_bcs_list]
DiscoveredCellidList(sampleid, valid_bcs_list) ==
    [n \in 1..Len(valid_bcs_list) |-> sampleid \o <<":">> \o valid_bcs_list[n] \o <<"-", "1">>]

\* Lines 116-120.
RReconcile(r) ==
    /\ r \in DOMAIN run
    /\ run[r].pc = "reconcile"
    /\ IF ~run[r].exincounter.filter_mode
       THEN LET valid_bcs_list == SortedByIndex(run[r].exincounter.valid_bcs2idx)
                locals == [run EXCEPT
                             ![r].bound = @ \cup {"valid_bcs_list", "valid_cellid_list",
                                                  "valid_bcs2idx"},
                             ![r].valid_bcs2idx = run[r].exincounter.valid_bcs2idx,
                             ![r].valid_bcs_list = valid_bcs_list,
                             ![r].valid_cellid_list =
                                 DiscoveredCellidList(run[r].sid, valid_bcs_list)]
            IN  run' = IF valid_bcs_list = <<>>
                       THEN [locals EXCEPT ![r].pc = "crashed", ![r].error = "IndexError"]
                       ELSE [locals EXCEPT ![r].pc = "ca"]
       ELSE run' = [run EXCEPT ![r].pc = "ca"]
    /\ UNCHANGED <<vcdirs, vcfiles, logs, disp, folders, outfiles>>

\* Line 126: np.array([value] * len(valid_cellid_list))
Broadcast(value, n) == [c \in 1..n |-> value]

\* Lines 122-126: CellID, then additional_ca, then one column per metadata field.
ColumnAttrs(valid_cellid_list, additional_ca, sample) ==
    Merge([key \in DOMAIN sample |-> Broadcast(sample[key], Len(valid_cellid_list))],
          Merge(additional_ca, [CellID |-> valid_cellid_list]))

RColumnAttrs(r) ==
    /\ r \in DOMAIN run
    /\ run[r].pc = "ca"
    /\ run' = [run EXCEPT ![r].ca = ColumnAttrs(run[r].valid_cellid_list,
                                                run[r].additional_ca, run[r].sample),
                          ![r].pc = "stats"]
    /\ UNCHANGED <<vcdirs, vcfiles, logs, disp, folders, outfiles>>

\* Lines 131-170: lastexon_counts.tab and <sampleid>_mapstats.hdf5, a row or a
\* group per gene.
RStats(r) ==
    /\ r \in DOMAIN run
    /\ run[r].pc = "stats"
    /\ LET genes == run[r].exincounter.genes
           ids == [i \in 1..Len(genes) |-> genes[i].geneid]
       IN  outfiles' = Merge([f \in {<<run[r].outfolder, <<>>, "lastexon_counts.tab">>} |-> ids],
                             WriteFiles(run[r].outfolder, run[r].sid, {"mapstats.hdf5"}, ids))
    /\ run' = [run EXCEPT ![r].pc = "loom"]
    /\ UNCHANGED <<vcdirs, vcfiles, logs, disp, folders>>

\* numpy's row assignment matrix[i, :] = v: v has the row's length or length 1.
Assignable(v, ncols) == Len(v) = ncols \/ Len(v) = 1
AssignRow(v, ncols) == [c \in 1..ncols |-> IF Len(v) = ncols THEN v[c] ELSE v[1]]

\* Lines 177-190.
RowAttrs(genes) ==
    [Gene       |-> [i \in 1..Len(genes) |-> genes[i].genename],
     Accession  |-> [i \in 1..Len(genes) |-> genes[i].geneid],
     Chromosome |-> [i \in 1..Len(genes) |-> genes[i].chrom],
     Strand     |-> [i \in 1..Len(genes) |-> genes[i].strand],
     Start      |-> [i \in 1..Len(genes) |-> genes[i].start],
     End        |-> [i \in 1..Len(genes) |-> genes[i].end]]

\* np.any(total)
NpAny(matrix) == \E i \in 1..Len(matrix) : \E c \in 1..Len(matrix[i]) : matrix[i][c] # 0

\* loompy.create(matrix, row_attrs, col_attrs) at line 207: the library takes a row
\* attribute of one value per row of the matrix and a column attribute of one
\* value per column, and raises ValueError for any other length.
LoompyAccepts(shape, ra, ca) ==
    /\ \A key \in DOMAIN ra : Len(ra[key]) = shape[1]
    /\ \A key \in DOMAIN ca : Len(ca[key]) = shape[2]

\* Lines 173-213: the three layers, their sum, the check for an empty matrix, the
\* file. The layers have the shape of the matrix, so set_layer takes them; a run
\* that loompy.create stops has not written the loom file.
RLoom(r) ==
    /\ r \in DOMAIN run
    /\ run[r].pc = "loom"
    /\ LET genes == run[r].exincounter.genes
           ncols == Len(run[r].valid_bcs_list)
           fits == \A i \in 1..Len(genes) :
                      /\ Assignable(genes[i].spliced_mol_counts, ncols)
                      /\ Assignable(genes[i].unspliced_mol_counts, ncols)
                      /\ Assignable(genes[i].ambiguous_mol_counts, ncols)
           spliced == [i \in 1..Len(genes) |-> AssignRow(genes[i].spliced_mol_counts, ncols)]
           unspliced == [i \in 1..Len(genes) |-> AssignRow(genes[i].unspliced_mol_counts, ncols)]
           ambiguous == [i \in 1..Len(genes) |-> AssignRow(genes[i].ambiguous_mol_counts, ncols)]
           total == [i \in 1..Len(genes) |->
                        [c \in 1..ncols |-> spliced[i][c] + unspliced[i][c] + ambiguous[i][c]]]
           loom == [shape |-> <<Len(genes), ncols>>, matrix |-> total,
                    spliced |-> spliced, unspliced |-> unspliced, ambiguous |-> ambiguous,
                    ra |-> RowAttrs(genes), ca |-> run[r].ca]
           logged == IF NpAny(total) THEN run[r].errors
                     ELSE run[r].errors \cup {"The output file is empty"}
       IN  IF ~fits
           THEN /\ run' = Crash(r, "ValueError")
                /\ UNCHANGED outfiles
           ELSE IF ~LoompyAccepts(loom.shape, loom.ra, loom.ca)
           THEN /\ run' = [Crash(r, "ValueError") EXCEPT ![r].errors = logged]
                /\ UNCHANGED outfiles
           ELSE /\ run' = [run EXCEPT ![r].errors = logged, ![r].pc = "done"]
                /\ outfiles' = Merge([f \in {<<run[r].outfolder, run[r].sid, "loom">>} |-> loom],
                                     outfiles)
    /\ UNCHANGED <<vcdirs, vcfiles, logs, disp, folders>>

Runs == {1, 2}

NextRun ==
    \E r \in Runs :
        \/ RSampleId(r)
        \/ ROutFolder(r)
        \/ RMkdir(r)
        \/ RBarcodes(r)
        \/ RMetadata(r)
        \/ REngine(r)
        \/ RCount(r)
        \/ RReconcile(r)
        \/ RColumnAttrs(r)
        \/ RStats(r)
        \/ RLoom(r)

OutputFolders == {OutArg, DefaultOutputFolder(BamDir)}

\* One pipeline, any arguments.
InitRun ==
    /\ vcdirs = {} /\ vcfiles = <<>> /\ logs = <<>> /\ disp = <<>>
    /\ folders \in SUBSET OutputFolders
    /\ outfiles = NoFiles
    /\ \E a \in RunArgs : run = [r \in {1} |-> Merge(a, RunLocals0)]

SpecRun == InitRun /\ [][NextRun]_vars

\* Two pipelines started on the same sample, as two run commands given the same
\* .bam file are.
RaceArgs ==
    {a \in RunArgs : /\ a.bcfile = Some(<< << "A", "C", "-", "1", "\n" >> >>)
                     /\ a.sampleid = Some(sidS)
                     /\ a.metadatatable \in {NoneOf(<<>>), Some(<<rowT, rowS1>>)}
                     /\ a.additional_ca = EmptyDict
                     /\ ~a.debug}

InitRace ==
    /\ vcdirs = {} /\ vcfiles = <<>> /\ logs = <<>> /\ disp = <<>>
    /\ folders \in SUBSET OutputFolders
    /\ outfiles = NoFiles
    /\ \E a \in [Runs -> RaceArgs] : run = [r \in Runs |-> Merge(a[r], RunLocals0)]

SpecRace == InitRace /\ [][NextRun]_vars

(***************************************************************************)
(* multi10x: properties                                                    *)
(***************************************************************************)
RECURSIVE CountLaunches(_, _)
CountLaunches(launched, sample_id) ==
    IF launched = <<>> THEN 0
    ELSE (IF Head(launched).folder[2] = sample_id THEN 1 ELSE 0)
         + CountLaunches(Tail(launched), sample_id)

WorkersFor(sample_id) ==
    CountLaunches(disp[1].launched, sample_id) + CountLaunches(disp[2].launched, sample_id)

\* C1: two dispatchers with the same log folder racing for a sample that had no
\* velocyto directory (one of them created it), no .loom and no log file: at most
\* one worker is ever spawned for the sample, the other dispatcher skipping it.
C1_OneWorkerPerClaimedSample ==
    \A s \in Glob10X :
        (/\ disp[1].logfolder = disp[2].logfolder
         /\ \E d \in Dispatchers : s \in disp[d].claimed)
        => WorkersFor(s) <= 1

\* C2: in one invocation the number of workers spawned never exceeds `number`,
\* whatever integer `number` is (zero and negative included): once a worker has
\* been spawned, the count of workers spawned is at most `number`.
C2_NeverMoreThanNumber ==
    \A d \in Dispatchers :
        disp[d].launched # <<>> =>
            /\ disp[d].n <= disp[d].number
            /\ Len(disp[d].launched) <= disp[d].number

\* C9: the candidates an invocation works on are the children of its parentfolder
\* argument that match the naming pattern, and the folder handed to every worker
\* is a child of that parentfolder.
C9_WorksOnParentfolder ==
    \A d \in Dispatchers :
        /\ disp[d].pc # "start" =>
              \A i \in 1..Len(disp[d].all_10X_dirs) :
                 disp[d].all_10X_dirs[i] \in Children(disp[d].parentfolder)
        /\ \A i \in 1..Len(disp[d].launched) :
              /\ disp[d].launched[i].folder[1] = disp[d].parentfolder
              /\ disp[d].launched[i].folder[2] \in Children(disp[d].parentfolder)

Moved(d) == disp'[d] # disp[d]

HasLoom(sample_id) == \E i \in vcfiles[sample_id] : LoomMatch(i)

SkippedStep(d) ==
    /\ disp'[d].pc = "loop"
    /\ disp'[d].k = disp[d].k + 1
    /\ disp'[d].launched = disp[d].launched
    /\ disp'[d].n = disp[d].n
    /\ logs' = logs

LaunchedStep(d) ==
    /\ Len(disp'[d].launched) = Len(disp[d].launched) + 1
    /\ SubSeq(disp'[d].launched, 1, Len(disp[d].launched)) = disp[d].launched
    /\ disp'[d].launched[Len(disp'[d].launched)] =
          [folder |-> <<ChromiumRoot, Cur(d)>>, log |-> <<disp[d].logfolder, Cur(d)>>]
    /\ <<disp[d].logfolder, Cur(d)>> \in DOMAIN logs
    /\ disp'[d].n = disp[d].n + 1

\* The steps of one candidate's evaluation.
C10_Steps ==
    \A d \in Dispatchers :
        Moved(d) =>
           /\ (disp[d].pc = "listdir" /\ HasLoom(Cur(d))) => SkippedStep(d)
           /\ (disp[d].pc = "listdir" /\ ~HasLoom(Cur(d))) =>
                 /\ disp'[d].pc = "checklog"
                 /\ disp'[d].launched = disp[d].launched
                 /\ logs' = logs
           /\ (disp[d].pc = "checklog" /\ <<disp[d].logfolder, Cur(d)>> \in DOMAIN logs) =>
                 SkippedStep(d)
           /\ (disp[d].pc = "checklog" /\ <<disp[d].logfolder, Cur(d)>> \notin DOMAIN logs) =>
                 /\ disp'[d].pc = "open"
                 /\ disp'[d].launched = disp[d].launched
           /\ disp[d].pc = "open" =>
                 /\ disp'[d].pc = "popen"
                 /\ <<disp[d].logfolder, Cur(d)>> \in DOMAIN logs'
                 /\ disp'[d].launched = disp[d].launched
           /\ disp[d].pc = "popen" => LaunchedStep(d)
           /\ disp[d].pc \notin {"popen"} => disp'[d].launched = disp[d].launched

\* A sample launched by an invocation that had ended is not launched again by an
\* invocation that started afterwards with the same log folder.
C10_NoRelaunch ==
    \A d \in Dispatchers : \A e \in disp[d].after :
        disp[d].logfolder = disp[e].logfolder =>
           \A s \in Glob10X :
              ~(CountLaunches(disp[d].launched, s) > 0 /\ CountLaunches(disp[e].launched, s) > 0)

\* C10: a candidate whose velocyto directory holds a .loom matching the pattern, or
\* whose log file exists, is skipped with no worker, no log file written and n
\* unchanged; one with neither gets exactly one worker, its log file, and n + 1;
\* so a later, non-overlapping invocation with the same log folder never launches
\* a sample again.
C10_SkipOrLaunchOnce == [][C10_Steps]_vars /\ []C10_NoRelaunch

C10_Witness ==
    \E d \in Dispatchers : \E e \in disp[d].after :
        /\ disp[d].logfolder = disp[e].logfolder
        /\ Len(disp[e].launched) = 2
        /\ disp[d].pc = "done"
        /\ disp[d].launched = <<>>
        /\ disp[d].number > 0

(***************************************************************************)
(* _run: properties                                                        *)
(***************************************************************************)
\* C3: with no barcode file the run is not in error for that: it never stops on
\* an error other than those with another cause, and once counting is done the
\* engine is in discovered mode.
C3_NoBarcodeFileIsNoError ==
    \A r \in DOMAIN run :
        run[r].bcfile.none =>
            /\ run[r].pc = "crashed" => run[r].error \in {"AssertionError", "FileExistsError"}
            /\ run[r].exincounter.counted => ~run[r].exincounter.filter_mode

FinalCells(r) == run[r].pc \in {"ca", "stats", "loom", "done"}

\* C4: the k-th final cell identity is sampleid, ":", the bare barcode of the k-th
\* barcode line (its suffix stripped), "-1", whether or not the line carried a
\* suffix.
C4_CellIdIsBarePlusSuffix ==
    \A r \in DOMAIN run :
        FinalCells(r) =>
            /\ Len(run[r].valid_cellid_list) = Len(run[r].valid_bcs_list)
            /\ \A k \in 1..Len(run[r].valid_bcs_list) :
                  run[r].valid_bcs_list[k] # <<>> =>
                     run[r].valid_cellid_list[k] =
                        run[r].sid \o <<":">> \o SplitFirst(run[r].valid_bcs_list[k], "-")
                        \o <<"-", "1">>

LoomOf(r) == outfiles[<<run[r].outfolder, run[r].sid, "loom">>]

NRows(r) ==
    Cardinality({i \in 1..Len(run[r].metadatatable.val) :
                    run[r].metadatatable.val[i].SampleID = run[r].sid})

TheRow(r) ==
    run[r].metadatatable.val[CHOOSE i \in 1..Len(run[r].metadatatable.val) :
                                 run[r].metadatatable.val[i].SampleID = run[r].sid]

PastMetadata(r) ==
    \/ run[r].pc \in {"engine", "count", "reconcile", "ca", "stats", "loom", "done", "exited"}
    \/ run[r].pc = "crashed" /\ run[r].error \in {"UnboundLocalError", "ValueError"}

CaBuilt(r) == run[r].pc \in {"stats", "loom", "done"}

\* C6: with a metadata table, two or more rows of the sample end the run with exit
\* status 1 before counting and before any file is written; no row logs an error
\* and the run goes on with no metadata column; one row makes every field of the
\* row a column attribute with the same value for every cell.
C6_MetadataByRowCount ==
    \A r \in DOMAIN run :
        (~run[r].metadatatable.none /\ PastMetadata(r)) =>
            /\ NRows(r) >= 2 =>
                  /\ run[r].pc = "exited" /\ run[r].exitcode = 1
                  /\ ~run[r].exincounter.counted
                  /\ outfiles = NoFiles
            /\ NRows(r) = 0 =>
                  /\ run[r].pc # "exited"
                  /\ "not found in sample sheet" \in run[r].errors
                  /\ CaBuilt(r) =>
                        DOMAIN run[r].ca = {"CellID"} \cup DOMAIN run[r].additional_ca
                  /\ run[r].pc = "done" => LoomOf(r).ca = run[r].ca
            /\ NRows(r) = 1 =>
                  /\ run[r].pc # "exited"
                  /\ CaBuilt(r) =>
                        \A key \in DOMAIN TheRow(r).dict :
                           /\ key \in DOMAIN run[r].ca
                           /\ Len(run[r].ca[key]) = Len(run[r].valid_cellid_list)
                           /\ \A c \in 1..Len(run[r].valid_cellid_list) :
                                 run[r].ca[key][c] = TheRow(r).dict[key]
                  /\ run[r].pc = "done" => LoomOf(r).ca = run[r].ca

C6_Witness ==
    \E r \in DOMAIN run :
        /\ ~run[r].metadatatable.none
        /\ NRows(r) = 1
        /\ Len(run[r].metadatatable.val) > 1
        /\ run[r].pc = "done"
        /\ Len(run[r].valid_cellid_list) = 2
        /\ LoomOf(r).ca.Age = <<"P7", "P7">>

\* C7: a barcode file that holds no barcode does not make the run fail: the cell
\* list and the lookup are empty, and the run ends with the empty matrix logged
\* as an error and the loom file written.
C7_EmptyBarcodeFileGoesOn ==
    \A r \in DOMAIN run :
        (~run[r].bcfile.none /\ run[r].bcfile.val = <<>>) =>
            /\ run[r].pc = "crashed" => run[r].error \in {"AssertionError", "FileExistsError"}
            /\ "valid_cellid_list" \in run[r].bound =>
                  run[r].valid_cellid_list = <<>> /\ run[r].valid_bcs2idx = EmptyDict
            /\ run[r].pc = "done" =>
                  /\ "The output file is empty" \in run[r].errors
                  /\ <<run[r].outfolder, run[r].sid, "loom">> \in DOMAIN outfiles

\* C8: creating the output folder never fails because the folder exists, also when
\* two pipelines with the same output folder interleave the check and the mkdir;
\* afterwards the folder exists.
C8_FolderCreationNeverFails ==
    \A r \in DOMAIN run :
        /\ run[r].error # "FileExistsError"
        /\ run[r].pc \notin {"sampleid", "outfolder", "mkdir"} => run[r].outfolder \in folders

====
